---- MODULE Spec2Model ----
(***************************************************************************)
(* Web Researcher Agent: the TTL content cache (ContentCache), the         *)
(* fetch-summarize pipeline (WebResearcher) and the agent facade           *)
(* (ResearchAgent).                                                        *)
(*                                                                         *)
(* Python dicts are records holding exactly the keys the code sets, so a   *)
(* missing key is a missing field.  Python's None is the record None.      *)
(* The program is single-threaded: one public call runs at a time.  The    *)
(* clock (datetime.now()) advances between calls and between the pipeline  *)
(* runs of a batch.                                                        *)
(***************************************************************************)
EXTENDS Integers, Sequences, FiniteSets, TLC

VARIABLES
    ttl,               \* ContentCache.ttl / ResearchConfig.cache_ttl (seconds)
    cache_enabled,     \* ResearchConfig.cache_enabled
    cache,             \* ContentCache.cache: key -> [value, expires]
    sources,           \* WebResearcher.sources
    research_history,  \* WebResearcher.research_history
    last_research,     \* ResearchAgent.last_research
    now,               \* datetime.now(), in seconds
    frame,             \* the public call in progress, or Idle
    lastOp,            \* log: the last completed public call and what it returned
    calls              \* log: number of calls and pipeline runs so far

vars == <<ttl, cache_enabled, cache, sources, research_history, last_research,
          now, frame, lastOp, calls>>

(***************************************************************************)
(* Bounds of the model.                                                    *)
(***************************************************************************)
MaxTime == 1
MaxTtl == 2
\* Calls a behaviour makes in all, a pipeline run inside summarize or
\* research_topic counting as one more call.
MaxCalls == 3
MaxCacheCalls == 4
MaxCandidates == 2      \* longest candidate list a search reply holds
MaxBatch == 2           \* longest url list given to summarize
MaxTextLen == 5         \* longest text given to chunk_text
MaxChunkSize == 3       \* largest chunk_size given to chunk_text
MaxContentLen == 9      \* longest content given to _summarize_content
\* ResearchConfig.max_search_results of the modelled configuration (default 10)
max_search_results == 2

\* Sizes of the text pipeline, scaled down from the program's values
\* (chunk_size 3000, overlap 100, max_length 5000, preview 500): the model
\* keeps  overlap < chunk_size  and texts long enough for several chunks.
SummaryChunkSize == 3
DefaultOverlap == 1
ExtractMaxLength == 5
\* shorter than the pages fetched, so that the preview is a proper prefix
PreviewLength == 1
\* researcher.py: "for chunk in chunks[:3]"
MaxChunksSummarized == 3

None == [py |-> "None"]

Min(a, b) == IF a < b THEN a ELSE b

Idle == [op |-> "idle"]

(***************************************************************************)
(* ContentCache                                                            *)
(***************************************************************************)
EmptyCache == [k \in {} |-> None]

\* ContentCache.get: the value returned and the mapping left behind.
ContentCache_get_NotStrict(c, key, t) ==
    IF key \in DOMAIN c
    THEN IF t <= c[key].expires
         THEN [value |-> c[key].value, cache |-> c]
         ELSE [value |-> None, cache |-> [k \in DOMAIN c \ {key} |-> c[k]]]
    ELSE [value |-> None, cache |-> c]

ContentCache_get_Reversed(c, key, t) ==
    IF key \in DOMAIN c
    THEN IF t > c[key].expires
         THEN [value |-> c[key].value, cache |-> c]
         ELSE [value |-> None, cache |-> [k \in DOMAIN c \ {key} |-> c[k]]]
    ELSE [value |-> None, cache |-> c]

ContentCache_get(c, key, t) ==
    IF key \in DOMAIN c
    THEN IF t < c[key].expires
         THEN [value |-> c[key].value, cache |-> c]
         ELSE [value |-> None, cache |-> [k \in DOMAIN c \ {key} |-> c[k]]]
    ELSE [value |-> None, cache |-> c]

\* ContentCache.set
ContentCache_set_KeepExisting(c, key, value, t, ttlv) ==
    IF key \in DOMAIN c THEN c
    ELSE [k \in DOMAIN c \cup {key} |->
            IF k = key THEN [value |-> value, expires |-> t + ttlv] ELSE c[k]]

\* "expires": datetime.now()
ContentCache_set_NoTtl(c, key, value, t, ttlv) ==
    [k \in DOMAIN c \cup {key} |->
        IF k = key THEN [value |-> value, expires |-> t] ELSE c[k]]

ContentCache_set(c, key, value, t, ttlv) ==
    [k \in DOMAIN c \cup {key} |->
        IF k = key THEN [value |-> value, expires |-> t + ttlv] ELSE c[k]]

\* ContentCache.clear
ContentCache_clear_Copy(c) == c

ContentCache_clear(c) == EmptyCache

(***************************************************************************)
(* utils.py                                                                *)
(***************************************************************************)
HasPrefix(s, p) == Len(s) >= Len(p) /\ SubSeq(s, 1, Len(p)) = p

\* The character of s at index i (1-based), "" beyond its end.
CharAt(s, i) == IF i <= Len(s) THEN SubSeq(s, i, i) ELSE ""

\* re.match of a pattern at the characters of s from index i on.  A pattern
\* is a sequence of items [char, optional]: the character to read, and
\* whether the item may be skipped ("s?").  re.search, which is not what the
\* code calls, tries every index.
RECURSIVE MatchHere(_, _, _)
MatchHere(pattern, s, i) ==
    IF pattern = <<>> THEN TRUE
    ELSE LET item == Head(pattern)
         IN \/ CharAt(s, i) = item.char /\ MatchHere(Tail(pattern), s, i + 1)
            \/ item.optional /\ MatchHere(Tail(pattern), s, i)

\* r"^https?://"
UrlPattern ==
    <<[char |-> "h", optional |-> FALSE], [char |-> "t", optional |-> FALSE],
      [char |-> "t", optional |-> FALSE], [char |-> "p", optional |-> FALSE],
      [char |-> "s", optional |-> TRUE],  [char |-> ":", optional |-> FALSE],
      [char |-> "/", optional |-> FALSE], [char |-> "/", optional |-> FALSE]>>

is_valid_url_Search(url) == \E i \in 1..(Len(url) + 1) : MatchHere(UrlPattern, url, i)

\* is_valid_url: re.match(url_pattern, url) is not None
is_valid_url(url) == MatchHere(UrlPattern, url, 1)

\* hash_content: the hex digest of the url, one key per url and no url itself.
hash_content(content) == "sha256:" \o content

\* str.strip() leaves something: some character is not whitespace.
HasNonWhitespace(s) == \E i \in 1..Len(s) : SubSeq(s, i, i) \notin {" ", "\n", "\t"}

\* text[i : j] of Python, i and j 0-based and within or beyond the text.
Slice(text, i, j) == SubSeq(text, i + 1, Min(j, Len(text)))

\* chunk_text: for i in range(0, len(text), chunk_size - overlap), from index i on.
RECURSIVE ChunksFrom(_, _, _, _)
ChunksFrom(text, i, chunk_size, overlap) ==
    IF i >= Len(text) THEN <<>>
    ELSE LET chunk == Slice(text, i, i + chunk_size)
             rest == ChunksFrom(text, i + (chunk_size - overlap), chunk_size, overlap)
         IN IF HasNonWhitespace(chunk) THEN <<chunk>> \o rest ELSE rest

chunk_text_StepIsChunkSize(text, chunk_size, overlap) ==
    ChunksFrom(text, 0, chunk_size, 0)

chunk_text(text, chunk_size, overlap) == ChunksFrom(text, 0, chunk_size, overlap)

\* extract_text_from_html: the page's text (its markup handled by the HTML
\* parser), cut to max_length.
extract_text_from_html(text, max_length) == Slice(text, 0, max_length)

\* What the network does with one requests.get: a RequestException, or a
\* response with a status code and a page.
PageTexts == {"", "ab"}
NetOutcomes ==
    {[exc |-> "ConnectionError"]}
    \cup {[status_code |-> 200, text |-> t] : t \in PageTexts}

\* fetch_url_content
fetch_url_content(url, net) ==
    IF "exc" \in DOMAIN net
    THEN [status |-> "error", url |-> url, error |-> net.exc]
    ELSE IF net.status_code >= 400
    THEN [status |-> "error", url |-> url, error |-> "HTTPError"]
    ELSE [status |-> "success", url |-> url,
          content |-> extract_text_from_html(net.text, ExtractMaxLength),
          status_code |-> net.status_code]

\* The index of the first character of s at or after i that is one of stops,
\* Len(s) + 1 when there is none.
RECURSIVE FirstOf(_, _, _)
FirstOf(s, stops, i) ==
    IF i > Len(s) THEN Len(s) + 1
    ELSE IF SubSeq(s, i, i) \in stops THEN i
    ELSE FirstOf(s, stops, i + 1)

\* The index at which the first occurrence of p in s at or after i starts,
\* 0 when there is none.
RECURSIVE Find(_, _, _)
Find(s, p, i) ==
    IF i + Len(p) - 1 > Len(s) THEN 0
    ELSE IF SubSeq(s, i, i + Len(p) - 1) = p THEN i
    ELSE Find(s, p, i + 1)

\* extract_domain: urlparse(url).netloc, for a url of the form scheme://...:
\* what follows "://" up to the next "/", "?" or "#"; empty without "://".
extract_domain(url) ==
    LET at == Find(url, "://", 1)
    IN  IF at = 0 THEN ""
        ELSE SubSeq(url, at + 3, FirstOf(url, {"/", "?", "#"}, at + 3) - 1)

\* format_sources, the lines from the i-th source on.
RECURSIVE SourceLines(_, _)
SourceLines(srcs, i) ==
    IF i > Len(srcs) THEN ""
    ELSE ToString(i) \o ". [" \o extract_domain(srcs[i]) \o "](" \o srcs[i] \o ")\n"
         \o SourceLines(srcs, i + 1)

format_sources(srcs) ==
    IF srcs = <<>> THEN "" ELSE "## Sources\n\n" \o SourceLines(srcs, 1)

(***************************************************************************)
(* The language-model client: a call returns text, returns a response      *)
(* with no content block, or raises.                                       *)
(***************************************************************************)
LMOutcomes == {"text", "empty", "raise"}

\* The text the model gives for a prompt built around `about`.
Reply(about) == "<" \o about \o ">"

\* " ".join(parts) and "\n\n".join(parts)
RECURSIVE Join(_, _)
Join(sep, parts) ==
    IF parts = <<>> THEN ""
    ELSE IF Len(parts) = 1 THEN parts[1]
    ELSE parts[1] \o sep \o Join(sep, Tail(parts))

(***************************************************************************)
(* WebResearcher                                                           *)
(***************************************************************************)
\* _summarize_content, the loop over chunks[:3] from chunk i on: lm[i] is the
\* outcome of the i-th model call.  A raise leaves the loop and the function.
RECURSIVE SummarizeChunks(_, _, _, _)
SummarizeChunks(chunks, i, lm, summaries) ==
    IF i > Min(Len(chunks), MaxChunksSummarized)
    THEN [raised |-> FALSE, asked |-> i - 1, summary |-> Join(" ", summaries)]
    ELSE IF lm[i] = "raise"
    THEN [raised |-> TRUE, asked |-> i, summary |-> ""]
    ELSE SummarizeChunks(chunks, i + 1, lm,
            IF lm[i] = "text" THEN Append(summaries, Reply(chunks[i])) ELSE summaries)

\* "for chunk in chunks[:2]"
summarize_content_FirstTwo(content, lm) ==
    LET chunks == chunk_text(content, SummaryChunkSize, DefaultOverlap)
    IN SummarizeChunks(SubSeq(chunks, 1, Min(2, Len(chunks))), 1, lm, <<>>)

summarize_content(content, lm) ==
    SummarizeChunks(chunk_text(content, SummaryChunkSize, DefaultOverlap), 1, lm, <<>>)

\* What one run of fetch_and_summarize leaves: the cache, the source list, the
\* dict returned (None when it raised), and the fetches and model calls made.
Outcome(c, src, result, raised, fetched, asked) ==
    [cache |-> c, sources |-> src, result |-> result, raised |-> raised,
     fetched |-> fetched, asked |-> asked]

\* "if not is_valid_url(url): return {...}"
InvalidUrlReturn(c, src, url) ==
    Outcome(c, src, [error |-> "Invalid URL: " \o url, url |-> url], FALSE, 0, 0)

\* "if fetch_result["status"] == "error": return fetch_result"
FetchErrorReturn_Cached(c, src, url, t, fetch_result) ==
    Outcome(IF cache_enabled
            THEN ContentCache_set(c, hash_content(url), fetch_result, t, ttl) ELSE c,
            src, fetch_result, FALSE, 1, 0)

\* The fetch made a second time after it failed.
FetchErrorReturn_Retried(c, src, url, t, fetch_result) ==
    Outcome(c, src, fetch_result, FALSE, 2, 0)

FetchErrorReturn(c, src, url, t, fetch_result) ==
    Outcome(c, src, fetch_result, FALSE, 1, 0)

\* "if not content: return {...}"
NoContentReturn(c, src, url) ==
    Outcome(c, src, [error |-> "No content extracted", url |-> url], FALSE, 1, 0)

\* The cache lookup: "if self.cache: cached = self.cache.get(hash_content(url))"
CacheLookup(c, url, t) ==
    IF cache_enabled
    THEN ContentCache_get(c, hash_content(url), t)
    ELSE [value |-> None, cache |-> c]

\* From the summary on: the result, the cache store, the source list.
SummarizeAndStore_AlwaysAppend(c, src, url, t, content, lm) ==
    LET s == summarize_content(content, lm)
        result == [url |-> url, status |-> "success", summary |-> s.summary,
                   content_preview |-> Slice(content, 0, PreviewLength)]
        c2 == IF cache_enabled
              THEN ContentCache_set(c, hash_content(url), result, t, ttl)
              ELSE c
    IN  IF s.raised
        THEN Outcome(c, src, None, TRUE, 1, s.asked)
        ELSE Outcome(c2, Append(src, url), result, FALSE, 1, s.asked)

\* Without "self.sources.append(url)".
SummarizeAndStore_NeverListed(c, src, url, t, content, lm) ==
    LET s == summarize_content(content, lm)
        result == [url |-> url, status |-> "success", summary |-> s.summary,
                   content_preview |-> Slice(content, 0, PreviewLength)]
        c2 == IF cache_enabled
              THEN ContentCache_set(c, hash_content(url), result, t, ttl)
              ELSE c
    IN  IF s.raised
        THEN Outcome(c, src, None, TRUE, 1, s.asked)
        ELSE Outcome(c2, src, result, FALSE, 1, s.asked)

SummarizeAndStore(c, src, url, t, content, lm) ==
    LET s == summarize_content(content, lm)
        result == [url |-> url, status |-> "success", summary |-> s.summary,
                   content_preview |-> Slice(content, 0, PreviewLength)]
        c2 == IF cache_enabled
              THEN ContentCache_set(c, hash_content(url), result, t, ttl)
              ELSE c
        src2 == IF \E i \in 1..Len(src) : src[i] = url
                THEN src ELSE Append(src, url)
    IN  IF s.raised
        THEN Outcome(c, src, None, TRUE, 1, s.asked)
        ELSE Outcome(c2, src2, result, FALSE, 1, s.asked)

\* fetch_and_summarize(url) at time t on cache c and source list src; env is
\* what the network (env.net) and the model (env.lm) do during the run.
fetch_and_summarize(c, src, url, t, env) ==
    IF ~is_valid_url(url)
    THEN InvalidUrlReturn(c, src, url)
    ELSE
    LET cached == CacheLookup(c, url, t)
    IN  IF cached.value # None
        THEN Outcome(cached.cache, src, cached.value, FALSE, 0, 0)
        ELSE
        LET fetch_result == fetch_url_content(url, env.net)
        IN  IF fetch_result.status = "error"
            THEN FetchErrorReturn(cached.cache, src, url, t, fetch_result)
            ELSE IF fetch_result.content = ""
            THEN NoContentReturn(cached.cache, src, url)
            ELSE SummarizeAndStore(cached.cache, src, url, t,
                                   fetch_result.content, env.lm)

\* The environments of one pipeline run that differ in what the run sees: the
\* model is asked once per summarized chunk and not again after a raise.
ModelCallsNeeded(net) ==
    IF "exc" \in DOMAIN net \/ net.status_code >= 400 THEN 0
    ELSE Min(MaxChunksSummarized,
             Len(chunk_text(extract_text_from_html(net.text, ExtractMaxLength),
                            SummaryChunkSize, DefaultOverlap)))

Envs ==
    {e \in [net : NetOutcomes, lm : [1..MaxChunksSummarized -> LMOutcomes]] :
        \A i \in 1..MaxChunksSummarized :
            (i > ModelCallsNeeded(e.net) \/ \E j \in 1..(i - 1) : e.lm[j] = "raise")
                => e.lm[i] = "text"}

(***************************************************************************)
(* The researcher and the agent: fetch_and_summarize, summarize, research  *)
(* (which runs research_topic) and clear_history, driven by a caller while *)
(* the clock runs.                                                         *)
(***************************************************************************)
Urls == {"https://a.org", "http://b.org", "not-a-url"}
Topics == {"topic"}
NumSourcesChoices == {1, max_search_results + 1}
\* cache_ttl of the modelled configurations: none, short, and longer than
\* any behaviour lasts.
TtlChoices == {0, 1, MaxTime + 1}

\* Sequences over S of length at most n.
SeqsUpTo(S, n) == UNION {[1..k -> S] : k \in 0..n}

\* The candidates a search reply can hold: records with and without a url.
Candidates ==
    {[url |-> u, title |-> "t"] : u \in Urls} \cup {[title |-> "t"]}

\* What the model does with the search prompt: the call raises, the response
\* has no content block, the text is not JSON, the JSON is not a list, or it
\* is a list of candidates.
SearchReplies ==
    {[kind |-> k] : k \in {"raise", "empty", "malformed", "object"}}
    \cup {[kind |-> "list", items |-> l] : l \in SeqsUpTo(Candidates, MaxCandidates)}

\* search, once the model call returned: json.loads and the isinstance test.
search_NoListCheck(reply) ==
    IF reply.kind = "list" THEN reply.items
    ELSE IF reply.kind = "object" THEN <<[title |-> "t"]>>
    ELSE <<>>

search(reply) ==
    IF reply.kind = "list" THEN reply.items ELSE <<>>

\* f.get("status") == status
StatusIs(f, status) == "status" \in DOMAIN f /\ f.status = status

\* [f.get("summary", f.get("error", "")) for f in findings
\*  if f.get("status") == "success"]
RECURSIVE SuccessSummaries(_)
SuccessSummaries(findings) ==
    IF findings = <<>> THEN <<>>
    ELSE LET f == Head(findings)
             rest == SuccessSummaries(Tail(findings))
         IN IF StatusIs(f, "success")
            THEN <<(IF "summary" \in DOMAIN f THEN f.summary
                    ELSE IF "error" \in DOMAIN f THEN f.error ELSE "")>> \o rest
            ELSE rest

UnableMessage == "Unable to generate analysis from available findings."

\* _generate_analysis: lm is the outcome of its one model call.
generate_analysis(topic, findings, lm) ==
    LET summaries == SuccessSummaries(findings)
    IN  IF summaries = <<>>
        THEN [raised |-> FALSE, asked |-> 0, analysis |-> UnableMessage]
        ELSE IF lm = "raise"
        THEN [raised |-> TRUE, asked |-> 1, analysis |-> ""]
        ELSE [raised |-> FALSE, asked |-> 1,
              analysis |-> IF lm = "text" THEN Reply(Join("\n\n", summaries)) ELSE ""]

\* research_result["sources"] is self.sources itself, the list object, not a copy.
SourcesRef == [ref |-> "self.sources"]

\* Log entry of a public call, written when the call starts and updated until
\* it ends: what it was given, whether it has ended and when, what it returned
\* (None when it raised or returns nothing), the fetches and model calls it
\* made, the urls it ran the pipeline for, in order, and the latest of these
\* runs (run).  A research call also logs the kind of reply its search got
\* and the candidates search returned.  again: the call is a
\* fetch_and_summarize that follows a fetch_and_summarize of the same url that
\* fetched the page and returned a success result.  dropped: the cache keys a
\* clear_history removed.  after_clear: the call is a fetch_and_summarize that
\* follows a clear_history which removed the cache entry of its url.
\* num_results: the number of results a research call passes to research_topic
\* and on to search.
Started(op, arg) ==
    [op |-> op, arg |-> arg, done |-> FALSE, at |-> now, ret |-> None,
     raised |-> FALSE, fetched |-> 0, asked |-> 0, trace |-> <<>>, run |-> None,
     reply |-> "", candidates |-> <<>>, num_results |-> 0,
     again |-> /\ op = "fetch_and_summarize"
               /\ lastOp.op = op
               /\ lastOp.arg = arg
               /\ lastOp.fetched = 1
               /\ StatusIs(lastOp.ret, "success"),
     dropped |-> {},
     after_clear |-> /\ op = "fetch_and_summarize"
                     /\ lastOp.op \in {"clear_history", "agent.clear_history"}
                     /\ hash_content(arg) \in lastOp.dropped]

\* The entry with one more pipeline run, for url, recorded.
Ran(entry, url, out) ==
    [entry EXCEPT !.fetched = @ + out.fetched, !.asked = @ + out.asked,
                  !.trace = Append(@, url),
                  !.run = [url |-> url, result |-> out.result, raised |-> out.raised,
                           fetched |-> out.fetched, asked |-> out.asked]]

Returned(entry, ret) == [entry EXCEPT !.done = TRUE, !.at = now, !.ret = ret]

Raised(entry) == [entry EXCEPT !.done = TRUE, !.at = now, !.raised = TRUE]

Init ==
    /\ cache_enabled \in BOOLEAN
    /\ ttl \in (IF cache_enabled THEN TtlChoices ELSE {1})
    /\ cache = EmptyCache
    /\ sources = <<>>
    /\ research_history = <<>>
    /\ last_research = None
    /\ now = 0
    /\ frame = Idle
    /\ lastOp = [op |-> "init", arg |-> "", done |-> TRUE, at |-> 0, ret |-> None,
                 raised |-> FALSE, fetched |-> 0, asked |-> 0, trace |-> <<>>,
                 run |-> None, reply |-> "", candidates |-> <<>>, num_results |-> 0,
                 again |-> FALSE, dropped |-> {}, after_clear |-> FALSE]
    /\ calls = 0

Config == UNCHANGED <<ttl, cache_enabled>>

\* The caller is in control and the bound leaves room for a call that runs
\* the pipeline `runs` times.
CanCall(runs) == frame = Idle /\ calls + 1 + runs <= MaxCalls

\* WebResearcher.fetch_and_summarize(url), called directly.
FetchAndSummarize(url, env) ==
    /\ CanCall(0)
    /\ calls' = calls + 1
    /\ LET out == fetch_and_summarize(cache, sources, url, now, env)
           entry == Ran(Started("fetch_and_summarize", url), url, out)
       IN /\ cache' = out.cache
          /\ sources' = out.sources
          /\ lastOp' = IF out.raised THEN Raised(entry) ELSE Returned(entry, out.result)
    /\ UNCHANGED <<research_history, last_research, now, frame>>
    /\ Config

\* ResearchAgent.summarize(urls): entry, one loop iteration, the return.
SummarizeBegin(urls) ==
    /\ CanCall(Len(urls))
    /\ calls' = calls + 1
    /\ frame' = [op |-> "summarize", urls |-> urls, i |-> 1,
                 summaries |-> [u \in {} |-> None]]
    /\ lastOp' = Started("summarize", urls)
    /\ UNCHANGED <<cache, sources, research_history, last_research, now>>
    /\ Config

SummarizeStep(env) ==
    /\ frame.op = "summarize"
    /\ frame.i <= Len(frame.urls)
    /\ calls' = calls + 1
    /\ LET url == frame.urls[frame.i]
           out == fetch_and_summarize(cache, sources, url, now, env)
       IN /\ cache' = out.cache
          /\ sources' = out.sources
          /\ IF out.raised
             THEN /\ lastOp' = Raised(Ran(lastOp, url, out))
                  /\ frame' = Idle
             ELSE /\ lastOp' = Ran(lastOp, url, out)
                  /\ frame' = [frame EXCEPT
                        !.i = @ + 1,
                        !.summaries = [u \in DOMAIN @ \cup {url} |->
                                          IF u = url THEN out.result ELSE @[u]]]
    /\ UNCHANGED <<research_history, last_research, now>>
    /\ Config

SummarizeReturn ==
    /\ frame.op = "summarize"
    /\ frame.i > Len(frame.urls)
    /\ lastOp' = Returned(lastOp, [status |-> "success",
                                   summaries |-> frame.summaries,
                                   sources_count |-> Len(frame.urls)])
    /\ frame' = Idle
    /\ UNCHANGED <<cache, sources, research_history, last_research, now, calls>>
    /\ Config

\* ResearchAgent.research(topic, num_sources): num_sources is cut to
\* max_search_results and research_topic runs: here up to its loop, the
\* search and the test of its result.  The record research_topic returns is
\* stored in last_research.
Research(topic, num_sources, reply) ==
    /\ CanCall(Len(search(reply)))
    /\ calls' = calls + 1
    /\ LET asked_for == IF num_sources > max_search_results
                        THEN max_search_results ELSE num_sources
           entry == [Started("research", <<topic, num_sources>>) EXCEPT
                        !.asked = 1, !.reply = reply.kind, !.num_results = asked_for,
                        !.candidates = IF reply.kind = "raise" THEN <<>>
                                       ELSE search(reply)]
       IN IF reply.kind = "raise"
          THEN /\ lastOp' = Raised(entry)
               /\ UNCHANGED <<last_research, frame>>
          ELSE IF search(reply) = <<>>
          THEN LET result == [topic |-> topic, status |-> "error",
                              error |-> "No search results found"]
               IN /\ lastOp' = Returned(entry, result)
                  /\ last_research' = result
                  /\ UNCHANGED frame
          ELSE /\ frame' = [op |-> "research", topic |-> topic,
                            num_sources |-> asked_for,
                            search_results |-> search(reply), i |-> 1,
                            findings |-> <<>>]
               /\ lastOp' = entry
               /\ UNCHANGED last_research
    /\ UNCHANGED <<cache, sources, research_history, now>>
    /\ Config

\* One iteration of "for result in search_results".
ResearchStep(env) ==
    /\ frame.op = "research"
    /\ frame.i <= Len(frame.search_results)
    /\ calls' = calls + 1
    /\ LET result == frame.search_results[frame.i]
       IN IF "url" \in DOMAIN result /\ result.url # ""
          THEN LET url == result.url
                   out == fetch_and_summarize(cache, sources, url, now, env)
               IN /\ cache' = out.cache
                  /\ sources' = out.sources
                  /\ IF out.raised
                     THEN /\ lastOp' = Raised(Ran(lastOp, url, out))
                          /\ frame' = Idle
                     ELSE /\ lastOp' = Ran(lastOp, url, out)
                          /\ frame' = [frame EXCEPT !.i = @ + 1,
                                          !.findings = Append(@, out.result)]
          ELSE /\ frame' = [frame EXCEPT !.i = @ + 1]
               /\ UNCHANGED <<cache, sources, lastOp>>
    /\ UNCHANGED <<research_history, last_research, now>>
    /\ Config

\* After the loop: the analysis, the record, the history, the return.
ResearchFinish(lm) ==
    /\ frame.op = "research"
    /\ frame.i > Len(frame.search_results)
    /\ LET a == generate_analysis(frame.topic, frame.findings, lm)
           research_result ==
               [topic |-> frame.topic, status |-> "success",
                findings |-> frame.findings, analysis |-> a.analysis,
                sources |-> SourcesRef, timestamp |-> now]
           entry == [lastOp EXCEPT !.asked = @ + a.asked]
       IN IF a.raised
          THEN /\ lastOp' = Raised(entry)
               /\ UNCHANGED <<research_history, last_research>>
          ELSE /\ research_history' = Append(research_history, research_result)
               /\ lastOp' = Returned(entry, research_result)
               /\ last_research' = research_result
    /\ frame' = Idle
    /\ UNCHANGED <<cache, sources, now, calls>>
    /\ Config

\* WebResearcher.clear_history
ClearHistory ==
    /\ CanCall(0)
    /\ calls' = calls + 1
    /\ research_history' = <<>>
    /\ sources' = <<>>
    /\ cache' = IF cache_enabled THEN ContentCache_clear(cache) ELSE cache
    /\ lastOp' = Returned([Started("clear_history", "") EXCEPT
                               !.dropped = DOMAIN cache \ DOMAIN cache'], None)
    /\ UNCHANGED <<last_research, now, frame>>
    /\ Config

\* ResearchAgent.clear_history
AgentClearHistory ==
    /\ CanCall(0)
    /\ calls' = calls + 1
    /\ research_history' = <<>>
    /\ sources' = <<>>
    /\ cache' = IF cache_enabled THEN ContentCache_clear(cache) ELSE cache
    /\ last_research' = None
    /\ lastOp' = Returned([Started("agent.clear_history", "") EXCEPT
                               !.dropped = DOMAIN cache \ DOMAIN cache'], None)
    /\ UNCHANGED <<now, frame>>
    /\ Config

\* ResearchAgent.get_formatted_report, the "Findings" part from the i-th
\* finding on: a section per finding with status success.
RECURSIVE FindingSections(_, _)
FindingSections(findings, i) ==
    IF i > Len(findings) THEN ""
    ELSE LET f == findings[i]
         IN (IF StatusIs(f, "success")
             THEN "### Source " \o ToString(i) \o "\n"
                  \o "**URL:** " \o (IF "url" \in DOMAIN f THEN f.url ELSE "N/A")
                  \o "\n\n"
                  \o "**Summary:** "
                  \o (IF "summary" \in DOMAIN f THEN f.summary ELSE "N/A")
                  \o "\n\n"
             ELSE "")
            \o FindingSections(findings, i + 1)

NoResearchMessage == "No research conducted yet."

\* ResearchAgent.get_formatted_report, reading last_research (lr) and the
\* source list (srcs).
get_formatted_report(lr, srcs) ==
    IF lr = None THEN NoResearchMessage
    ELSE "# Research Report: " \o lr.topic \o "\n\n"
         \o "## Analysis\n\n"
         \o (IF "analysis" \in DOMAIN lr THEN lr.analysis ELSE "No analysis available")
         \o "\n\n"
         \o "## Findings\n\n"
         \o FindingSections(IF "findings" \in DOMAIN lr THEN lr.findings ELSE <<>>, 1)
         \o format_sources(srcs)

\* Time passes: between two calls, or between two steps of a call.
Tick ==
    /\ now < MaxTime
    /\ now' = now + 1
    /\ UNCHANGED <<cache, sources, research_history, last_research, frame,
                   lastOp, calls>>
    /\ Config

Next ==
    \/ \E url \in Urls, env \in Envs : FetchAndSummarize(url, env)
    \/ \E urls \in SeqsUpTo(Urls, MaxBatch) : SummarizeBegin(urls)
    \/ \E env \in Envs : SummarizeStep(env)
    \/ SummarizeReturn
    \/ \E topic \in Topics, n \in NumSourcesChoices, reply \in SearchReplies :
          Research(topic, n, reply)
    \/ \E env \in Envs : ResearchStep(env)
    \/ \E lm \in LMOutcomes : ResearchFinish(lm)
    \/ ClearHistory
    \/ AgentClearHistory
    \/ Tick

Spec == Init /\ [][Next]_vars

\* A step that is the call fetch_and_summarize(url).
IsFetchCall(url) ==
    /\ calls' = calls + 1
    /\ lastOp'.op = "fetch_and_summarize"
    /\ lastOp'.arg = url

\* A step that runs the pipeline once, directly or inside a batch; the run is
\* then lastOp'.run.
IsRun ==
    /\ calls' = calls + 1
    /\ \/ lastOp'.op = "fetch_and_summarize"
       \/ frame # Idle /\ Len(lastOp'.trace) = Len(lastOp.trace) + 1

\* The call before was fetch_and_summarize(url), fetched the page and returned
\* a success result.
FirstCallSucceeded(url) ==
    /\ lastOp.op = "fetch_and_summarize"
    /\ lastOp.arg = url
    /\ lastOp.fetched = 1
    /\ StatusIs(lastOp.ret, "success")

\* The second call makes no fetch and no model call and returns the result of
\* the first.
SecondCallIsHit ==
    /\ lastOp'.fetched = 0
    /\ lastOp'.asked = 0
    /\ ~lastOp'.raised
    /\ lastOp'.ret = lastOp.ret

\* C1 as stated: with caching enabled, a fetch_and_summarize(url) that follows
\* a successful fetch_and_summarize(url) is a cache hit: no fetch, no model
\* call, the identical result.
C1_SecondCallIsHit ==
    [][ \A url \in Urls :
          (cache_enabled /\ FirstCallSucceeded(url) /\ IsFetchCall(url))
              => SecondCallIsHit ]_vars

\* C1 amended: ... provided the second call is made before the entry stored by
\* the first expires, that is less than ttl seconds after the first call.
C1_SecondCallWithinTtlIsHit ==
    [][ \A url \in Urls :
          ( /\ cache_enabled
            /\ FirstCallSucceeded(url)
            /\ IsFetchCall(url)
            /\ now < lastOp.at + ttl )
              => SecondCallIsHit ]_vars

\* C1 witness: the second of two such calls was served from the cache.
C1_Witness ==
    /\ cache_enabled
    /\ lastOp.op = "fetch_and_summarize"
    /\ lastOp.again
    /\ lastOp.fetched = 0
    /\ lastOp.asked = 0
    /\ StatusIs(lastOp.ret, "success")

\* C6 as stated: fetch_and_summarize of a url that fails validation returns a
\* result with status error that carries the url, makes no fetch and no model
\* call, and leaves cache, source list and history as they were.
C6_InvalidUrlErrorStatus ==
    [][ \A url \in Urls :
          (IsFetchCall(url) /\ ~is_valid_url(url))
              => /\ StatusIs(lastOp'.ret, "error")
                 /\ lastOp'.ret.url = url
                 /\ lastOp'.fetched = 0
                 /\ lastOp'.asked = 0
                 /\ UNCHANGED <<cache, sources, research_history>> ]_vars

\* The part of C6 the code does keep: the result carries an error text and
\* the url, and nothing else happens.
C6_InvalidUrlFailsFast ==
    [][ \A url \in Urls :
          (IsFetchCall(url) /\ ~is_valid_url(url))
              => /\ lastOp'.ret = [error |-> "Invalid URL: " \o url, url |-> url]
                 /\ lastOp'.fetched = 0
                 /\ lastOp'.asked = 0
                 /\ UNCHANGED <<cache, sources, research_history>> ]_vars

\* A run that ended on an error path: it returned, and not a success result.
ErrorRun(r) == ~r.raised /\ ~StatusIs(r.result, "success")

\* C7: the cache holds success results only, so no call is served a cached
\* error (a run that made no fetch for a valid url returned a success
\* result); and a pipeline run that ends on an error path (invalid url, fetch
\* failure, empty extraction) writes no cache entry, leaves the source list
\* as it was and has made no model call.
C7_NothingCachedOnError ==
    /\ [](\A key \in DOMAIN cache : StatusIs(cache[key].value, "success"))
    /\ [][ IsRun =>
             LET r == lastOp'.run
             IN /\ ErrorRun(r) =>
                    /\ \A key \in DOMAIN cache' :
                          key \in DOMAIN cache /\ cache'[key] = cache[key]
                    /\ sources' = sources
                    /\ r.asked = 0
                /\ (~r.raised /\ r.fetched = 0 /\ is_valid_url(r.url)) =>
                      StatusIs(r.result, "success") ]_vars

\* C7 witness: with caching on and another url cached and listed, a run
\* fetched a page, extracted nothing and left no entry for its url.
C7_Witness ==
    /\ cache_enabled
    /\ lastOp.run # None
    /\ lastOp.run.fetched = 1
    /\ lastOp.run.result = [error |-> "No content extracted", url |-> lastOp.run.url]
    /\ hash_content(lastOp.run.url) \notin DOMAIN cache
    /\ DOMAIN cache # {}
    /\ sources # <<>>

\* C8 as stated: every failure inside fetch_and_summarize comes back as a
\* record with status error and an error text, none is raised; so every
\* record the pipeline returns has status success or status error.
C8_FailuresAreErrorRecords ==
    lastOp.run # None =>
        /\ ~lastOp.run.raised
        /\ \/ StatusIs(lastOp.run.result, "success")
           \/ StatusIs(lastOp.run.result, "error") /\ "error" \in DOMAIN lastOp.run.result

\* The search of the logged research call gave no candidate: the reply could
\* not be parsed as a list, or the list was empty.
EmptySearch(entry) ==
    \/ entry.reply \in {"empty", "malformed", "object"}
    \/ entry.reply = "list" /\ entry.candidates = <<>>

\* C9: a research whose search gives no candidate returns the error record
\* {topic, status error, error text} with no findings, has run the pipeline
\* for no url, has made the search call and no other model call, and the
\* call leaves history, source list and cache as they were.
C9_NoCandidates ==
    /\ []( (lastOp.op = "research" /\ EmptySearch(lastOp)) =>
             /\ lastOp.done
             /\ ~lastOp.raised
             /\ lastOp.ret = [topic |-> lastOp.arg[1], status |-> "error",
                              error |-> "No search results found"]
             /\ lastOp.trace = <<>>
             /\ lastOp.fetched = 0
             /\ lastOp.asked = 1 )
    /\ [][ ( /\ calls' = calls + 1
             /\ frame = Idle
             /\ lastOp'.op = "research"
             /\ EmptySearch(lastOp') )
           => UNCHANGED <<research_history, sources, cache>> ]_vars

\* C9 witness: with a url cached and listed, a research got a reply that is
\* not JSON and returned the error record.
C9_Witness ==
    /\ lastOp.op = "research"
    /\ lastOp.reply = "malformed"
    /\ lastOp.done
    /\ StatusIs(lastOp.ret, "error")
    /\ DOMAIN cache # {}
    /\ sources # <<>>

\* The urls of a list, as a set.
Range(seq) == {seq[i] : i \in 1..Len(seq)}

\* summarize returned a mapping with one entry per url of the list, each
\* holding the result of that url, after one pipeline run per list element,
\* in list order.
OnePerUrl(entry) ==
    /\ entry.trace = entry.arg
    /\ DOMAIN entry.ret.summaries = Range(entry.arg)
    /\ \A u \in Range(entry.arg) : entry.ret.summaries[u].url = u

\* C10 as stated: summarize(urls) runs the pipeline once per url, in order,
\* and returns the mapping, whatever fails for one of the urls.
C10_SummarizeOnePerUrl ==
    (lastOp.op = "summarize" /\ lastOp.done)
        => (~lastOp.raised /\ OnePerUrl(lastOp))

\* The part of C10 the code does keep: a summarize that returns has done so.
C10_SummarizeWhenNothingRaises ==
    (lastOp.op = "summarize" /\ lastOp.done /\ ~lastOp.raised) => OnePerUrl(lastOp)

\* A sequence without a repeated element.
NoDuplicates(seq) == \A i, j \in 1..Len(seq) : seq[i] = seq[j] => i = j

\* C11: the source list never holds a url twice; a pipeline run that returns
\* a success result for a url not yet listed appends that url at the end, a
\* run for a listed url and a run that fails leave the list as it is, and
\* any other step leaves the list as it is or (clear_history) empties it: the
\* list is in order of first successful processing since the last reset.
C11_SourceListDeduplicated ==
    [][ /\ NoDuplicates(sources')
        /\ IsRun =>
              LET r == lastOp'.run
              IN sources' = IF /\ ~r.raised
                              /\ StatusIs(r.result, "success")
                              /\ r.url \notin Range(sources)
                           THEN Append(sources, r.url)
                           ELSE sources
        /\ ~IsRun =>
              \/ sources' = sources
              \/ /\ sources' = <<>>
                 /\ lastOp'.op \in {"clear_history", "agent.clear_history"}
      ]_vars

\* C11 witness: a listed url was fetched and summarized a second time, with
\* success, and the list still holds it once.
C11_Witness ==
    /\ lastOp.op = "fetch_and_summarize"
    /\ lastOp.again
    /\ lastOp.fetched = 1
    /\ StatusIs(lastOp.ret, "success")
    /\ sources = <<lastOp.arg>>

IsClear(entry) == entry.op \in {"clear_history", "agent.clear_history"}

\* C12: when clear_history has returned, the research history and the source
\* list are empty and the cache, if there is one, holds no entry; after the
\* agent's clear_history last_research is unset as well and the formatted
\* report is the "no research conducted" text; and a fetch_and_summarize of
\* a valid url that follows a clear_history fetches the page.
C12_ClearHistoryResets ==
    /\ [](IsClear(lastOp) =>
            /\ research_history = <<>>
            /\ sources = <<>>
            /\ cache_enabled => DOMAIN cache = {})
    /\ [](lastOp.op = "agent.clear_history" =>
            /\ last_research = None
            /\ get_formatted_report(last_research, sources) = NoResearchMessage)
    /\ [][ \A url \in Urls :
             (IsClear(lastOp) /\ IsFetchCall(url) /\ is_valid_url(url))
                 => lastOp'.fetched = 1 ]_vars

\* C12 witness: a url was cached and not expired, clear_history removed its
\* entry, and the next fetch_and_summarize of the url fetched the page again.
C12_Witness ==
    /\ cache_enabled
    /\ ttl > MaxTime
    /\ lastOp.op = "fetch_and_summarize"
    /\ lastOp.after_clear
    /\ lastOp.fetched = 1

\* The contents fetch_url_content can hand to the pipeline, and the summaries
\* the model can give for a content.
FetchedContents == {extract_text_from_html(page, ExtractMaxLength) : page \in PageTexts}

SummariesOf(content) ==
    {summarize_content(content, lm).summary : lm \in [1..MaxChunksSummarized -> LMOutcomes]}

\* C21: a run of fetch_and_summarize(url) that fetched the page and succeeded
\* returns exactly {url, status success, summary, content_preview}, the
\* preview being the first PreviewLength characters of the content fetched;
\* with caching enabled the cache then holds that record under hash(url)
\* with expiry now + ttl and every other entry is as before; the source list
\* is as before or has url appended; the history is as before.  With caching
\* disabled the cache never holds anything and every run for a valid url
\* fetches.
C21_SuccessRecordStored ==
    /\ [](~cache_enabled => cache = EmptyCache)
    /\ [][ IsRun =>
             LET r == lastOp'.run
                 key == hash_content(r.url)
             IN /\ (r.fetched = 1 /\ StatusIs(r.result, "success")) =>
                    /\ DOMAIN r.result = {"url", "status", "summary", "content_preview"}
                    /\ r.result.url = r.url
                    /\ \E content \in FetchedContents \ {""} :
                          /\ r.result.content_preview = Slice(content, 0, PreviewLength)
                          /\ r.result.summary \in SummariesOf(content)
                    /\ cache_enabled =>
                          /\ DOMAIN cache' = DOMAIN cache \cup {key}
                          /\ cache'[key] = [value |-> r.result, expires |-> now + ttl]
                          /\ \A k \in DOMAIN cache \ {key} : cache'[k] = cache[k]
                    /\ sources' \in {sources, Append(sources, r.url)}
                    /\ research_history' = research_history
                /\ (~cache_enabled /\ is_valid_url(r.url)) => r.fetched = 1
          ]_vars

\* C21 witness: with another url cached, a fetch_and_summarize fetched a page
\* longer than the preview, summarized it and stored the record.
C21_Witness ==
    /\ cache_enabled
    /\ ttl > 0
    /\ lastOp.op = "fetch_and_summarize"
    /\ lastOp.fetched = 1
    /\ StatusIs(lastOp.ret, "success")
    /\ lastOp.ret.content_preview = "a"
    /\ lastOp.ret.summary = Reply("ab")
    /\ Cardinality(DOMAIN cache) = 2
    /\ cache[hash_content(lastOp.arg)] = [value |-> lastOp.ret, expires |-> lastOp.at + ttl]

\* C22: every entry of the cache is stored under the hash of a url that is
\* in the source list, so whenever a pipeline run has returned a success
\* result for a url, fetched or served from the cache, the url is in the
\* source list.
C22_CachedUrlsAreListed ==
    /\ \A key \in DOMAIN cache :
          /\ key = hash_content(cache[key].value.url)
          /\ cache[key].value.url \in Range(sources)
    /\ (lastOp.op \in {"fetch_and_summarize", "summarize", "research"}
          /\ lastOp.run # None /\ StatusIs(lastOp.run.result, "success"))
            => lastOp.run.url \in Range(sources)

\* C22 witness: inside a summarize, a url was served from the cache, which
\* skips the append, and is in the source list among others.
C22_Witness ==
    /\ lastOp.op = "summarize"
    /\ lastOp.run # None
    /\ lastOp.run.fetched = 0
    /\ StatusIs(lastOp.run.result, "success")
    /\ lastOp.run.url \in Range(sources)
    /\ hash_content(lastOp.run.url) \in DOMAIN cache

\* C23 as stated: research passes min(num_sources, max_search_results) to
\* research_topic, never more than max_search_results; and when a research
\* call has ended, last_research is the record the call returned.
C23_ResearchClampsAndRemembers ==
    lastOp.op = "research" =>
        /\ lastOp.num_results = Min(lastOp.arg[2], max_search_results)
        /\ lastOp.num_results <= max_search_results
        /\ lastOp.done => (~lastOp.raised /\ last_research = lastOp.ret)

\* The part of C23 the code does keep: the number passed on is the minimum,
\* and a research call that returns leaves the record it returns, success or
\* error, in last_research.
C23_WhenNothingRaises ==
    lastOp.op = "research" =>
        /\ lastOp.num_results = Min(lastOp.arg[2], max_search_results)
        /\ (lastOp.done /\ ~lastOp.raised) => last_research = lastOp.ret

\* The urls of the candidates that have one, in candidate order.
RECURSIVE CandidateUrls(_)
CandidateUrls(candidates) ==
    IF candidates = <<>> THEN <<>>
    ELSE (IF "url" \in DOMAIN Head(candidates) THEN <<Head(candidates).url>> ELSE <<>>)
         \o CandidateUrls(Tail(candidates))

\* A research call that got at least one candidate and has ended.
ResearchEnded(entry) ==
    entry.op = "research" /\ entry.done /\ entry.candidates # <<>>

\* The findings are the results of the pipeline runs, one per run, in order.
FindingsFollowTrace(entry) ==
    /\ Len(entry.ret.findings) = Len(entry.trace)
    /\ \A i \in 1..Len(entry.trace) : entry.ret.findings[i].url = entry.trace[i]

\* C15 as stated: a research with candidates runs the pipeline once for each
\* candidate that has a url, in candidate order; no run aborts the call (a
\* candidate whose processing fails becomes an error entry and the later
\* candidates are still processed); and the findings of the record returned
\* hold one result per such candidate, success or error, in that order.
C15_OneFindingPerCandidate ==
    ResearchEnded(lastOp) =>
        /\ lastOp.trace = CandidateUrls(lastOp.candidates)
        /\ lastOp.run # None => ~lastOp.run.raised
        /\ ~lastOp.raised =>
              /\ FindingsFollowTrace(lastOp)
              /\ \A i \in 1..Len(lastOp.ret.findings) :
                    \/ StatusIs(lastOp.ret.findings[i], "success")
                    \/ StatusIs(lastOp.ret.findings[i], "error")

\* The part of C15 the code does keep: a research that returns a record has
\* run the pipeline once per candidate with a url, in order, and the findings
\* are the results of these runs.
C15_WhenNothingRaises ==
    (ResearchEnded(lastOp) /\ ~lastOp.raised) =>
        /\ lastOp.trace = CandidateUrls(lastOp.candidates)
        /\ FindingsFollowTrace(lastOp)

\* The findings with status success, and their summaries joined as the
\* analysis prompt holds them.
SuccessfulFindings(findings) ==
    SelectSeq(findings, LAMBDA f : StatusIs(f, "success"))

CombinedText(findings) ==
    LET ok == SuccessfulFindings(findings)
    IN Join("\n\n", [i \in 1..Len(ok) |-> ok[i].summary])

\* The step is the end of a research call whose loop over the candidates has
\* completed: the analysis, then the return or the raise.
IsAnalysis ==
    /\ frame.op = "research"
    /\ frame.i > Len(frame.search_results)
    /\ frame' = Idle

\* C16 as stated: a research call with candidates that ends with no
\* successful finding has made no analysis call and returns a record whose
\* analysis is the fixed message, it does not fail; one that reaches the
\* analysis with a successful finding makes exactly one analysis call, over
\* the summaries of the successful findings in findings order.
C16_AnalysisOrFallback ==
    [][ (frame.op = "research" /\ frame' = Idle) =>
          IF SuccessfulFindings(frame.findings) = <<>>
          THEN /\ ~lastOp'.raised
               /\ lastOp'.ret.analysis = UnableMessage
               /\ IsAnalysis => lastOp'.asked = lastOp.asked
          ELSE IsAnalysis =>
                 /\ lastOp'.asked = lastOp.asked + 1
                 /\ ~lastOp'.raised =>
                       lastOp'.ret.analysis \in {Reply(CombinedText(frame.findings)), ""}
      ]_vars

\* The part of C16 the code does keep: once the loop over the candidates has
\* completed, the analysis is as stated.
C16_AnalysisStage ==
    [][ IsAnalysis =>
          IF SuccessfulFindings(frame.findings) = <<>>
          THEN /\ lastOp'.asked = lastOp.asked
               /\ ~lastOp'.raised
               /\ lastOp'.ret.analysis = UnableMessage
               /\ lastOp'.ret.findings = frame.findings
          ELSE /\ lastOp'.asked = lastOp.asked + 1
               /\ ~lastOp'.raised =>
                     lastOp'.ret.analysis \in {Reply(CombinedText(frame.findings)), ""}
      ]_vars

\* The records a caller can hold: the one research returned last and the
\* ones in the history.
HeldRecords ==
    {r \in {last_research} \cup Range(research_history) : "sources" \in DOMAIN r}

\* What the sources field of a record reads as while the source list is srcs.
SourcesValue(r, srcs) == IF r.sources = SourcesRef THEN srcs ELSE r.sources

\* C17 as stated: the sources field of a record is a snapshot: no later step
\* changes what it reads as.
C17_SourcesIsSnapshot ==
    [][ \A r \in HeldRecords : SourcesValue(r, sources') = SourcesValue(r, sources) ]_vars

Last(seq) == seq[Len(seq)]

\* C18 as stated: a research that got at least one candidate has appended
\* one record to the history, as its last element, and returned that record;
\* and the history changes only by such an append or by clear_history
\* emptying it, never in a fetch_and_summarize or a summarize.
C18_OneRecordPerResearch ==
    /\ [](ResearchEnded(lastOp) =>
            /\ ~lastOp.raised
            /\ research_history # <<>>
            /\ Last(research_history) = lastOp.ret)
    /\ [][ \/ research_history' = research_history
           \/ /\ IsAnalysis
              /\ research_history' = Append(research_history, lastOp'.ret)
           \/ /\ IsClear(lastOp')
              /\ calls' = calls + 1
              /\ research_history' = <<>> ]_vars

\* The part of C18 the code does keep: a research that returns a record has
\* appended it as the last element of the history, and the history changes
\* only by such an append or by clear_history.
C18_WhenNothingRaises ==
    /\ []((ResearchEnded(lastOp) /\ ~lastOp.raised) =>
            /\ research_history # <<>>
            /\ Last(research_history) = lastOp.ret)
    /\ [][ \/ research_history' = research_history
           \/ /\ IsAnalysis
              /\ research_history' = Append(research_history, lastOp'.ret)
           \/ /\ IsClear(lastOp')
              /\ calls' = calls + 1
              /\ research_history' = <<>> ]_vars

(***************************************************************************)
(* The cache on its own (tests/test_researcher.py, TestContentCache):      *)
(* a ContentCache(ttl) driven by set / get / clear while the clock runs.   *)
(***************************************************************************)
CacheKeys == {"key1", "key2"}
CacheValues == {[summary |-> "value1"], [summary |-> "value2"]}

\* Log entry of a cache call: value is what set stored or what get returned,
\* dropped the keys whose entry the call removed or replaced.
CacheCall(op, key, value, dropped) ==
    [op |-> op, key |-> key, at |-> now, value |-> value, dropped |-> dropped,
     prev |-> [op |-> lastOp.op, key |-> lastOp.key, at |-> lastOp.at,
               value |-> lastOp.value, dropped |-> lastOp.dropped]]

CacheInit ==
    /\ ttl \in 0..MaxTtl
    /\ cache_enabled = TRUE
    /\ cache = EmptyCache
    /\ sources = <<>>
    /\ research_history = <<>>
    /\ last_research = None
    /\ now = 0
    /\ frame = Idle
    /\ lastOp = [op |-> "init", key |-> "", at |-> 0, value |-> None, dropped |-> {},
                 prev |-> [op |-> "init", key |-> "", at |-> 0, value |-> None,
                           dropped |-> {}]]
    /\ calls = 0

CacheFrame == UNCHANGED <<ttl, cache_enabled, sources, research_history,
                          last_research, frame>>

Set(key, value) ==
    /\ calls < MaxCacheCalls
    /\ cache' = ContentCache_set(cache, key, value, now, ttl)
    /\ lastOp' = CacheCall("set", key, value, {key} \cap DOMAIN cache)
    /\ calls' = calls + 1
    /\ now' = now
    /\ CacheFrame

Get(key) ==
    /\ calls < MaxCacheCalls
    /\ LET g == ContentCache_get(cache, key, now)
       IN /\ cache' = g.cache
          /\ lastOp' = CacheCall("get", key, g.value, DOMAIN cache \ DOMAIN g.cache)
    /\ calls' = calls + 1
    /\ now' = now
    /\ CacheFrame

Clear ==
    /\ calls < MaxCacheCalls
    /\ cache' = ContentCache_clear(cache)
    /\ lastOp' = CacheCall("clear", "", None, DOMAIN cache)
    /\ calls' = calls + 1
    /\ now' = now
    /\ CacheFrame

\* Time passes between two calls.
CacheTick ==
    /\ now < MaxTime
    /\ now' = now + 1
    /\ UNCHANGED <<cache, lastOp, calls>>
    /\ CacheFrame

CacheNext ==
    \/ \E key \in CacheKeys, value \in CacheValues : Set(key, value)
    \/ \E key \in CacheKeys : Get(key)
    \/ Clear
    \/ CacheTick

SpecCache == CacheInit /\ [][CacheNext]_vars

\* A step of SpecCache that is the call op(key).
IsCacheCall(op, key) ==
    /\ calls' = calls + 1
    /\ lastOp'.op = op
    /\ lastOp'.key = key

\* The entry of key is present and not yet expired.
Live(key) == key \in DOMAIN cache /\ cache[key].expires > now

\* C2: get(key) returns the stored value exactly when the key is present and
\* its expiry is strictly after the current time, and returns absent in every
\* other case; a stale entry of that key is gone when get returns, a live one
\* stays, and no other key is touched.  The expiry of an entry is the time of
\* the most recent set on its key plus the ttl, which never changes: set writes
\* now + ttl and no other call writes an entry.
C2_LazyExpiry ==
    [][ /\ ttl' = ttl
        /\ \A key \in CacheKeys :
            /\ IsCacheCall("get", key) =>
                  /\ lastOp'.value = IF Live(key) THEN cache[key].value ELSE None
                  /\ (key \in DOMAIN cache') <=> Live(key)
                  /\ Live(key) => cache'[key] = cache[key]
                  /\ \A j \in CacheKeys \ {key} :
                        /\ (j \in DOMAIN cache') <=> (j \in DOMAIN cache)
                        /\ j \in DOMAIN cache => cache'[j] = cache[j]
            /\ IsCacheCall("set", key) =>
                  cache'[key].expires = now + ttl
            /\ (~IsCacheCall("set", key) /\ key \in DOMAIN cache') =>
                  (key \in DOMAIN cache /\ cache'[key] = cache[key])
      ]_vars

\* C2 witness: a get found a stale entry, evicted it and returned absent while
\* another key stayed in the mapping.
C2_Witness ==
    /\ lastOp.op = "get"
    /\ lastOp.dropped = {lastOp.key}
    /\ lastOp.value = None
    /\ DOMAIN cache # {}

\* C3: with ttl > 0, a get that follows a set of the same key with no call in
\* between and no time elapsed returns exactly the value set, whatever the key
\* held before, and the entry's expiry is the time of the set plus ttl.
C3_GetAfterSet ==
    ( /\ ttl > 0
      /\ lastOp.op = "get"
      /\ lastOp.prev.op = "set"
      /\ lastOp.prev.key = lastOp.key
      /\ lastOp.prev.at = lastOp.at )
    => /\ lastOp.value = lastOp.prev.value
       /\ lastOp.key \in DOMAIN cache
       /\ cache[lastOp.key] = [value |-> lastOp.prev.value,
                               expires |-> lastOp.prev.at + ttl]

\* C3 witness: the set overwrote an existing entry and the get returned the
\* new value.
C3_Witness ==
    /\ ttl > 0
    /\ lastOp.op = "get"
    /\ lastOp.prev.op = "set"
    /\ lastOp.prev.key = lastOp.key
    /\ lastOp.prev.at = lastOp.at
    /\ lastOp.prev.dropped = {lastOp.key}
    /\ lastOp.value = lastOp.prev.value

\* C4: with ttl = 0 every get returns absent and leaves no entry under its
\* key, so a get any positive delay after a set of that key returns absent.
C4_ZeroTtl ==
    (ttl = 0 /\ lastOp.op = "get")
    => (lastOp.value = None /\ lastOp.key \notin DOMAIN cache)

\* C4 witness: ttl = 0, a key was set, time passed, and the get of that key
\* found the entry, evicted it and returned absent.
C4_Witness ==
    /\ ttl = 0
    /\ lastOp.op = "get"
    /\ lastOp.prev.op = "set"
    /\ lastOp.prev.key = lastOp.key
    /\ lastOp.prev.at < lastOp.at
    /\ lastOp.dropped = {lastOp.key}
    /\ lastOp.value = None

\* C5: clear leaves the mapping empty, and a get that follows a clear returns
\* absent for every key, in particular for the keys the clear removed.
C5_Clear ==
    /\ lastOp.op = "clear" => DOMAIN cache = {}
    /\ (lastOp.op = "get" /\ lastOp.prev.op = "clear") => lastOp.value = None

\* C5 witness: two keys were stored and still live (ttl > 0, no time elapsed),
\* clear removed both, and a get of one of them returned absent.
C5_Witness ==
    /\ ttl > 0
    /\ lastOp.op = "get"
    /\ lastOp.at = 0
    /\ lastOp.prev.op = "clear"
    /\ lastOp.prev.dropped = CacheKeys
    /\ lastOp.value = None

(***************************************************************************)
(* The functions on their own, called directly as tests/test_researcher.py *)
(* calls the utilities: a call is chosen with its arguments, then made.    *)
(***************************************************************************)
TextAlphabet == {"a", "b", " "}

\* The strings over TextAlphabet of length at most n.
RECURSIVE Strings(_)
Strings(n) ==
    IF n = 0 THEN {""}
    ELSE LET shorter == Strings(n - 1)
         IN shorter \cup {t \o c : t \in shorter, c \in TextAlphabet}

\* chunk_text(text, chunk_size, overlap) with 0 <= overlap < chunk_size.
ChunkCalls ==
    {[op |-> "chunk_text", text |-> t, chunk_size |-> c, overlap |-> o] :
        t \in Strings(MaxTextLen), c \in 1..MaxChunkSize, o \in 0..(MaxChunkSize - 1)}

\* Strings around the two accepted prefixes: cut short, doubled, in upper
\* case, preceded by something, another scheme; followed by anything.
UrlHeads ==
    {"", "http://", "https://", "http:/", "https:/", "http:", "https", "htt",
     "httpss://", "https//", "HTTP://", "Https://", " http://", "xhttps://",
     "ftp://", "not a url", "//"}
UrlTails == {"", "example.com", "/", " ", "http://", "?q=https://x", "s://"}

UrlCalls == {[op |-> "is_valid_url", url |-> h \o t] : h \in UrlHeads, t \in UrlTails}

\* The first n characters of "abcde abcde abcde ...".
RECURSIVE Filler(_)
Filler(n) ==
    IF n = 0 THEN "" ELSE Filler(n - 1) \o CharAt("abcde ", ((n - 1) % 6) + 1)

\* Contents of every length up to MaxContentLen, and one with a run of blanks
\* that fills a whole window.
SummaryContents == {Filler(n) : n \in 0..MaxContentLen} \cup {"ab    cd"}

SummaryCalls ==
    {[op |-> "_summarize_content", content |-> c, lm |-> lm] :
        c \in SummaryContents, lm \in [1..MaxChunksSummarized -> LMOutcomes]}

FunctionsInit ==
    /\ frame \in {call \in ChunkCalls : call.overlap < call.chunk_size}
                 \cup UrlCalls \cup SummaryCalls
    /\ lastOp = [op |-> "none"]
    /\ ttl = 0
    /\ cache_enabled = FALSE
    /\ cache = EmptyCache
    /\ sources = <<>>
    /\ research_history = <<>>
    /\ last_research = None
    /\ now = 0
    /\ calls = 0

\* The call chosen is made and has returned ret.
Call(ret) ==
    /\ lastOp' = frame @@ [ret |-> ret]
    /\ frame' = [op |-> "returned"]
    /\ calls' = calls + 1
    /\ UNCHANGED <<ttl, cache_enabled, cache, sources, research_history,
                   last_research, now>>

ChunkText ==
    /\ frame.op = "chunk_text"
    /\ Call(chunk_text(frame.text, frame.chunk_size, frame.overlap))

IsValidUrl ==
    /\ frame.op = "is_valid_url"
    /\ Call(is_valid_url(frame.url))

SummarizeContent ==
    /\ frame.op = "_summarize_content"
    /\ Call(summarize_content(frame.content, frame.lm))

FunctionsNext == ChunkText \/ IsValidUrl \/ SummarizeContent

SpecFunctions == FunctionsInit /\ [][FunctionsNext]_vars

\* The part of each chunk that the next chunk does not repeat: its first
\* chunk_size - overlap characters, and the last chunk in full, concatenated.
RECURSIVE NonOverlapping(_, _, _)
NonOverlapping(chunks, chunk_size, overlap) ==
    IF chunks = <<>> THEN ""
    ELSE IF Len(chunks) = 1 THEN chunks[1]
    ELSE Slice(chunks[1], 0, chunk_size - overlap)
         \o NonOverlapping(Tail(chunks), chunk_size, overlap)

\* The window of the text that starts at 0-based index i.
Window(text, i, chunk_size) == Slice(text, i, i + chunk_size)

\* The 0-based indices at which windows start: 0, C - O, 2(C - O), ... < L.
WindowStarts(text, chunk_size, overlap) ==
    {i \in 0..(Len(text) - 1) : i % (chunk_size - overlap) = 0}

\* Some window of the text holds whitespace only.
HasBlankWindow(text, chunk_size, overlap) ==
    \E i \in WindowStarts(text, chunk_size, overlap) :
        ~HasNonWhitespace(Window(text, i, chunk_size))

\* The chunks are windows of the text at increasing start indices, the
\* first of them at index `from` or later.
RECURSIVE WindowsFrom(_, _, _, _, _)
WindowsFrom(chunks, text, chunk_size, overlap, from) ==
    \/ chunks = <<>>
    \/ /\ chunks # <<>>
       /\ \E i \in WindowStarts(text, chunk_size, overlap) :
             /\ i >= from
             /\ Head(chunks) = Window(text, i, chunk_size)
             /\ WindowsFrom(Tail(chunks), text, chunk_size, overlap, i + 1)

InTextOrder(chunks, text, chunk_size, overlap) ==
    WindowsFrom(chunks, text, chunk_size, overlap, 0)

\* C13 as stated: whatever the text, every chunk is at most chunk_size long,
\* the chunks are in text order, and the non-overlapping portions of the
\* chunks concatenated are the text.
C13_ChunksReconstructText ==
    lastOp.op = "chunk_text" =>
        /\ \A k \in 1..Len(lastOp.ret) : Len(lastOp.ret[k]) <= lastOp.chunk_size
        /\ InTextOrder(lastOp.ret, lastOp.text, lastOp.chunk_size, lastOp.overlap)
        /\ NonOverlapping(lastOp.ret, lastOp.chunk_size, lastOp.overlap) = lastOp.text

\* C13 amended: every chunk is at most chunk_size long and the chunks are in
\* text order; and when no window of the text is blank (whitespace only), the
\* chunks are exactly the windows and their non-overlapping portions
\* concatenated are the text.  A blank window is not emitted.
C13_ChunksReconstructUnlessBlankWindow ==
    lastOp.op = "chunk_text" =>
        /\ \A k \in 1..Len(lastOp.ret) : Len(lastOp.ret[k]) <= lastOp.chunk_size
        /\ InTextOrder(lastOp.ret, lastOp.text, lastOp.chunk_size, lastOp.overlap)
        /\ \A k \in 1..Len(lastOp.ret) : HasNonWhitespace(lastOp.ret[k])
        /\ ~HasBlankWindow(lastOp.text, lastOp.chunk_size, lastOp.overlap) =>
              /\ Len(lastOp.ret) =
                    Cardinality(WindowStarts(lastOp.text, lastOp.chunk_size,
                                             lastOp.overlap))
              /\ NonOverlapping(lastOp.ret, lastOp.chunk_size, lastOp.overlap)
                    = lastOp.text

\* C13 witness: a text with blanks in it but no blank window, cut into three
\* or more overlapping chunks.
C13_Witness ==
    /\ lastOp.op = "chunk_text"
    /\ lastOp.overlap > 0
    /\ Len(lastOp.ret) >= 3
    /\ ~HasNonWhitespace(CharAt(lastOp.text, 2))
    /\ ~HasBlankWindow(lastOp.text, lastOp.chunk_size, lastOp.overlap)
    /\ NonOverlapping(lastOp.ret, lastOp.chunk_size, lastOp.overlap) = lastOp.text

\* C14: is_valid_url accepts a string exactly when the string starts with
\* http:// or with https://, whatever follows.
C14_ValidIffPrefix ==
    lastOp.op = "is_valid_url" =>
        (lastOp.ret <=> (HasPrefix(lastOp.url, "http://")
                            \/ HasPrefix(lastOp.url, "https://")))

\* C14 witness: "https://" alone has been accepted.
C14_Witness ==
    /\ lastOp.op = "is_valid_url"
    /\ lastOp.url = "https://"
    /\ lastOp.ret = TRUE

\* The chunks of the content given to _summarize_content, and how many of
\* them are summarized.
ContentChunks(entry) == chunk_text(entry.content, SummaryChunkSize, DefaultOverlap)

Summarized(entry) == Min(Len(ContentChunks(entry)), 3)

\* The replies that have content, for the first n chunks, in chunk order.
RepliesIn(entry, n) ==
    LET withText == SelectSeq([i \in 1..n |-> i], LAMBDA i : entry.lm[i] = "text")
    IN [m \in 1..Len(withText) |-> Reply(ContentChunks(entry)[withText[m]])]

FirstRaise(entry, n) ==
    IF \E i \in 1..n : entry.lm[i] = "raise"
    THEN CHOOSE i \in 1..n :
            entry.lm[i] = "raise" /\ \A j \in 1..(i - 1) : entry.lm[j] # "raise"
    ELSE n + 1

Progress ==
    /\ WF_vars(\E env \in Envs : SummarizeStep(env))
    /\ WF_vars(SummarizeReturn)
    /\ WF_vars(\E env \in Envs : ResearchStep(env))
    /\ WF_vars(\E lm \in LMOutcomes : ResearchFinish(lm))

SpecProgress ==
    /\ Init \/ FunctionsInit
    /\ [][Next \/ FunctionsNext]_vars
    /\ Progress

\* C20: a run of fetch_and_summarize makes at most one fetch and at most
\* three model calls; _summarize_content makes at most one call per chunk, at
\* most three, and none after a call that raised; a research over n
\* candidates makes at most n fetches and at most 3n + 2 model calls, one
\* pipeline run per candidate at most; and a summarize or research call in
\* progress ends.
C20_NoRetries ==
    /\ [](lastOp.op \in {"fetch_and_summarize", "summarize", "research"} =>
            /\ lastOp.run # None =>
                  /\ lastOp.run.fetched <= 1
                  /\ lastOp.run.asked <= 3
                  /\ lastOp.run.raised => (lastOp.done /\ lastOp.raised)
            /\ lastOp.fetched <= Len(lastOp.trace)
            /\ lastOp.op = "research" =>
                  /\ Len(lastOp.trace) <= Len(lastOp.candidates)
                  /\ lastOp.asked <= 3 * Len(lastOp.trace) + 2)
    /\ [](lastOp.op = "_summarize_content" =>
            /\ lastOp.ret.asked <= Summarized(lastOp)
            /\ lastOp.ret.asked <= FirstRaise(lastOp, 3))
    /\ [][ (frame.op \in {"idle", "summarize", "research"} /\ IsRun) =>
              /\ lastOp'.fetched =
                    (IF frame = Idle THEN 0 ELSE lastOp.fetched) + lastOp'.run.fetched
              /\ lastOp'.asked =
                    (IF frame = Idle THEN 0 ELSE lastOp.asked) + lastOp'.run.asked
          ]_vars
    /\ (frame.op \in {"summarize", "research"}) ~> (frame = Idle)

\* C20 witness: a research over two candidates has returned after a fetch
\* that failed and a fetch that succeeded: two fetches, three model calls
\* (the search, one summary, the analysis).
C20_Witness ==
    /\ lastOp.op = "research"
    /\ lastOp.done
    /\ ~lastOp.raised
    /\ Len(lastOp.candidates) = 2
    /\ lastOp.fetched = 2
    /\ lastOp.asked = 3
    /\ \E i \in 1..2 : StatusIs(lastOp.ret.findings[i], "error")

====
